---- MODULE Spec2Model ----
(***************************************************************************)
(* Model of src/src/rp_handler.py: the RunPod serverless handler that      *)
(* drives a local ComfyUI HTTP service for one job.                        *)
(*                                                                         *)
(* One behaviour is one call of handler(job).  The ComfyUI service, the    *)
(* clock and the output directory are the environment: every response of   *)
(* the service is drawn with \E from the outcomes the call can produce.    *)
(***************************************************************************)
EXTENDS Integers, Sequences, FiniteSets, TLC

(***************************************************************************)
(* Bounds of the model.                                                    *)
(***************************************************************************)
\* value the COMFY_POLLING_MAX_RETRIES environment variable is set to
MaxPollRetries == 3
\* value of COMFY_API_READY_TIMEOUT, in units of the probe's sleep interval
ReadyTimeoutTicks == 2
\* longest time one probe iteration (request + sleep) takes, same unit
MaxTickDelay == 2
\* longest images list handed to a materializer called on its own
MaxImages == 2

(***************************************************************************)
(* base64: characters are 0..63 (alphabet), PAD ('=') and JUNK (any        *)
(* character outside the alphabet); bytes are 0..255.                      *)
(***************************************************************************)
PAD == 64
JUNK == 65

DecodeError == [ok |-> FALSE, bytes |-> <<>>]

RECURSIVE a2b_base64(_, _, _, _, _, _)
\* binascii.a2b_base64 in non-strict mode, as called by base64.b64decode(s):
\* characters outside the alphabet are skipped, a completed pad sequence
\* ends the input, leftover characters of a quad are an error.
a2b_base64(s, i, quad_pos, pads, leftchar, out) ==
    IF i > Len(s)
    THEN IF quad_pos # 0 THEN DecodeError ELSE [ok |-> TRUE, bytes |-> out]
    ELSE LET c == s[i] IN
         IF c = PAD
         THEN IF quad_pos >= 2 /\ quad_pos + pads + 1 >= 4
              THEN [ok |-> TRUE, bytes |-> out]
              ELSE a2b_base64(s, i + 1, quad_pos,
                              IF quad_pos >= 2 THEN pads + 1 ELSE pads,
                              leftchar, out)
         ELSE IF c = JUNK
         THEN a2b_base64(s, i + 1, quad_pos, pads, leftchar, out)
         ELSE CASE quad_pos = 0 ->
                     a2b_base64(s, i + 1, 1, 0, c, out)
                [] quad_pos = 1 ->
                     a2b_base64(s, i + 1, 2, 0, c % 16,
                                Append(out, leftchar * 4 + (c \div 16)))
                [] quad_pos = 2 ->
                     a2b_base64(s, i + 1, 3, 0, c % 4,
                                Append(out, leftchar * 16 + (c \div 4)))
                [] OTHER ->
                     a2b_base64(s, i + 1, 0, 0, 0,
                                Append(out, leftchar * 64 + c))

\* base64.b64decode(image_data)
b64decode(s) == a2b_base64(s, 1, 0, 0, 0, <<>>)

RECURSIVE b64encode(_)
\* base64.b64encode(data)
b64encode(b) ==
    IF Len(b) = 0 THEN <<>>
    ELSE IF Len(b) = 1
    THEN << b[1] \div 4, (b[1] % 4) * 16, PAD, PAD >>
    ELSE IF Len(b) = 2
    THEN << b[1] \div 4, (b[1] % 4) * 16 + (b[2] \div 16),
            (b[2] % 16) * 4, PAD >>
    ELSE << b[1] \div 4, (b[1] % 4) * 16 + (b[2] \div 16),
            (b[2] % 16) * 4 + (b[3] \div 64), b[3] % 64 >>
         \o b64encode(SubSeq(b, 4, Len(b)))

(***************************************************************************)
(* Job inputs.  A JSON value is a record [t, n]: t is its Python type, n   *)
(* its content (the integer, the length of a string or list, 1/0 for a     *)
(* bool, the index of a mapping in WorkflowTable).                         *)
(***************************************************************************)
None == [t |-> "null", n |-> 0]

\* image payloads of the bounded input set
PayloadShort   == b64encode(<<77>>)
PayloadLong    == b64encode(<<1, 2, 3, 250, 251, 252, 253>>)
PayloadBadPad  == <<19, 22, 5>>
PayloadOneOver == <<19, 22, 5, 9, 30>>
PayloadJunk    == <<JUNK, JUNK, JUNK, JUNK>>
Payloads == {PayloadShort, PayloadLong, PayloadBadPad, PayloadOneOver,
             PayloadJunk}

\* the workflows (mappings node-id -> node) of the bounded input set; the
\* first is the empty mapping {}
WorkflowTable ==
    << << >>,
       << [id |-> "1", class_type |-> "KSampler", image |-> <<>>] >>,
       << [id |-> "1", class_type |-> "KSampler", image |-> <<>>],
          [id |-> "2", class_type |-> "LoadImage", image |-> PayloadLong] >> >>

WorkflowValues ==
    { [t |-> "dict", n |-> i] : i \in 1..Len(WorkflowTable) }
    \cup { None, [t |-> "int", n |-> 0], [t |-> "int", n |-> 5],
           [t |-> "str", n |-> 0], [t |-> "str", n |-> 3],
           [t |-> "bool", n |-> 0], [t |-> "list", n |-> 0],
           [t |-> "list", n |-> 2] }

\* Python truthiness of a JSON value
Truthy(v) ==
    CASE v.t = "null" -> FALSE
      [] v.t = "dict" -> Len(WorkflowTable[v.n]) # 0
      [] OTHER        -> v.n # 0

\* isinstance(v, dict)
IsDict(v) == v.t = "dict"

\* an entry of the images list
Img(nm, data) == [isdict |-> TRUE, keys |-> {"name", "image"},
                  name |-> nm, image |-> data]
ImgNoName  == [isdict |-> TRUE, keys |-> {"image"},
               name |-> "", image |-> PayloadLong]
ImgNoImage == [isdict |-> TRUE, keys |-> {"name"},
               name |-> "a.png", image |-> <<>>]
ImgNotDict == [isdict |-> FALSE, keys |-> {}, name |-> "", image |-> <<>>]

ImagesNull == [t |-> "null", items |-> <<>>]
ImagesList(items) == [t |-> "list", items |-> items]

ImagesValues ==
    { ImagesNull, [t |-> "str", items |-> <<>>], [t |-> "dict", items |-> <<>>],
      ImagesList(<<>>),
      ImagesList(<<ImgNoName>>), ImagesList(<<ImgNoImage>>),
      ImagesList(<<ImgNotDict>>),
      ImagesList(<<Img("a.png", PayloadLong), ImgNoImage>>) }
    \cup { ImagesList(<<Img("a.png", p)>>) : p \in Payloads }
    \cup { ImagesList(<<Img("a.png", PayloadLong), Img("b.png", p)>>) :
             p \in {PayloadShort, PayloadBadPad} }
    \cup { ImagesList(<<Img("a.png", PayloadBadPad), Img("b.png", PayloadLong)>>) }

Absent(v) == [present |-> FALSE, v |-> v]
Present(v) == [present |-> TRUE, v |-> v]

\* job['input']: raw is the type of the value the runtime hands over; json
\* says what json.loads makes of a string; the three fields are the keys of
\* the (parsed) mapping.
NoFields == [workflow |-> Absent(None), comfy_workflow |-> Absent(None),
             images |-> Absent(ImagesNull)]

\* the parsed mappings of the bounded input set: every combination of the
\* two workflow keys with two images values, and every images value with
\* two combinations of the workflow keys
DictInputs ==
    { [workflow |-> w, comfy_workflow |-> c, images |-> i] :
        w \in {Absent(None)} \cup {Present(v) : v \in WorkflowValues},
        c \in {Absent(None), Present(None),
               Present([t |-> "dict", n |-> 2]), Present([t |-> "str", n |-> 3])},
        i \in {Absent(ImagesNull), Present(ImagesList(<<ImgNotDict>>))} }
    \cup
    { [workflow |-> w, comfy_workflow |-> Present([t |-> "dict", n |-> 2]),
       images |-> Present(i)] :
        w \in {Absent(None), Present([t |-> "dict", n |-> 3])},
        i \in ImagesValues }

\* the mappings that also arrive as a JSON-encoded string
StrInputs ==
    { [NoFields EXCEPT !.images = Present(ImagesList(<<ImgNoName>>))],
      [NoFields EXCEPT !.workflow = Present([t |-> "dict", n |-> 2])],
      [NoFields EXCEPT !.comfy_workflow = Present([t |-> "list", n |-> 2])] }

JobInputs ==
    { [raw |-> "none", json |-> "none", d |-> NoFields],
      [raw |-> "str", json |-> "invalid", d |-> NoFields],
      [raw |-> "str", json |-> "nonobject", d |-> NoFields] }
    \cup { [raw |-> "dict", json |-> "object", d |-> d] : d \in DictInputs }
    \cup { [raw |-> "str", json |-> "object", d |-> d] : d \in StrInputs }

\* dict.get(key): None when the key is absent
Get(field) == IF field.present THEN field.v ELSE None
GetImages(field) == IF field.present THEN field.v ELSE ImagesNull

\* Python's  a or b
PyOr(a, b) == IF Truthy(a) THEN a ELSE b

(***************************************************************************)
(* validate_input: returns [err, workflow, images]; err = "" is no error,  *)
(* "raise" is an exception leaving the function.                           *)
(***************************************************************************)
ErrNoInput   == "Please provide input"
ErrBadJson   == "Invalid JSON format in input"
ErrMissingWf == "Missing 'workflow' or 'comfy_workflow' parameter in input"
ErrWfType    == "'workflow' or 'comfy_workflow' must be a JSON object"
ErrImages    == "'images', if provided, must be a list of objects with 'name' and 'image' keys"
ValidationErrors == {ErrNoInput, ErrBadJson, ErrMissingWf, ErrWfType, ErrImages}

Invalid(e) == [err |-> e, workflow |-> None, images |-> ImagesNull]

ImagesWellFormed(images) ==
    /\ images.t = "list"
    /\ \A k \in 1..Len(images.items) :
          /\ images.items[k].isdict
          /\ "name" \in images.items[k].keys
          /\ "image" \in images.items[k].keys

validate_input(job_input) ==
    IF job_input.raw = "none" THEN Invalid(ErrNoInput)
    ELSE IF job_input.raw = "str" /\ job_input.json = "invalid"
    THEN Invalid(ErrBadJson)
    ELSE IF job_input.json = "nonobject"
    THEN Invalid("raise")      \* .get on a list/number: AttributeError
    ELSE LET workflow == PyOr(Get(job_input.d.workflow),
                              Get(job_input.d.comfy_workflow))
             images   == GetImages(job_input.d.images)
         IN  IF workflow.t = "null" THEN Invalid(ErrMissingWf)
             ELSE IF ~IsDict(workflow) THEN Invalid(ErrWfType)
             ELSE IF images.t # "null" /\ ~ImagesWellFormed(images)
             THEN Invalid(ErrImages)
             ELSE [err |-> "", workflow |-> workflow, images |-> images]

(***************************************************************************)
(* Environment configuration read at import time.                          *)
(***************************************************************************)
COMFY_POLLING_MAX_RETRIES == MaxPollRetries
COMFY_API_READY_TIMEOUT == ReadyTimeoutTicks

(***************************************************************************)
(* The output directory and the outputs mapping of a history entry.        *)
(***************************************************************************)
Ref(ty, sub, fn) == [keys |-> {"type", "subfolder", "filename"},
                     type |-> ty, subfolder |-> sub, filename |-> fn]
\* a reference the service sent without its 'subfolder' key
RefNoSubfolder == [keys |-> {"type", "filename"},
                   type |-> "output", subfolder |-> "", filename |-> "a.png"]

\* f"/comfyui/{image['type']}/{image['subfolder']}/{image['filename']}"
image_path(image) == <<"comfyui", image.type, image.subfolder, image.filename>>

OutputPaths == { image_path(Ref("output", "", "a.png")),
                 image_path(Ref("output", "s", "a.png")),
                 image_path(Ref("output", "", "b.png")) }

\* content of the files ComfyUI writes
FileBytes(path) ==
    IF path = image_path(Ref("output", "", "a.png")) THEN <<1, 2, 3>>
    ELSE IF path = image_path(Ref("output", "s", "a.png")) THEN <<9>>
    ELSE <<255, 0>>

Node(imgs) == [hasImages |-> TRUE, images |-> imgs]
NodeNoImages == [hasImages |-> FALSE, images |-> <<>>]

\* the outputs mappings (node-id -> node output, in the mapping's order)
\* the service may report
OutputsChoices ==
    { << >>,
      << Node(<< Ref("output", "", "a.png") >>) >>,
      << Node(<< Ref("output", "", "a.png") >>),
         Node(<< Ref("output", "s", "a.png") >>) >>,
      << NodeNoImages,
         Node(<< Ref("output", "", "a.png"), Ref("output", "", "b.png") >>) >>,
      << Node(<< Ref("output", "", "b.png"), RefNoSubfolder >>) >> }

RECURSIVE FlattenOutputs(_)
\* the images visited by the two nested loops over prompt_history['outputs']
FlattenOutputs(outputs) ==
    IF Len(outputs) = 0 THEN <<>>
    ELSE (IF outputs[1].hasImages THEN outputs[1].images ELSE <<>>)
         \o FlattenOutputs(Tail(outputs))

\* base64_encode(img_path)
base64_encode(path) == b64encode(FileBytes(path))

\* output_images[key] = value on an insertion-ordered dict
DictSet(d, key, value) ==
    IF \E k \in 1..Len(d) : d[k].filename = key
    THEN [k \in 1..Len(d) |-> IF d[k].filename = key THEN value ELSE d[k]]
    ELSE Append(d, value)

RECURSIVE ResolveImagesStopsAtMissing(_, _, _)
\* a resolver that records the missing file and leaves the loops
ResolveImagesStopsAtMissing(refs, files, acc) ==
    IF Len(refs) = 0 THEN acc
    ELSE LET image == refs[1] IN
         IF image.keys # {"type", "subfolder", "filename"}
         THEN [acc EXCEPT !.raised = TRUE]
         ELSE IF image_path(image) \in files
         THEN ResolveImagesStopsAtMissing(Tail(refs), files,
                 [acc EXCEPT
                    !.output_images = DictSet(@, image.filename,
                        [filename |-> image.filename, kind |-> "image",
                         data |-> base64_encode(image_path(image))]),
                    !.read = @ \cup {image_path(image)}])
         ELSE [acc EXCEPT
                    !.output_images = DictSet(@, image.filename,
                        [filename |-> image.filename, kind |-> "error",
                         data |-> <<>>])]

RECURSIVE ResolveImages(_, _, _)
\* body of the loops at handler lines 446-460 over the visited images:
\* [raised, output_images, read]; raised is the KeyError of a reference
\* that lacks one of its keys, read the set of files that were encoded.
ResolveImages(refs, files, acc) ==
    IF Len(refs) = 0 THEN acc
    ELSE LET image == refs[1] IN
         IF image.keys # {"type", "subfolder", "filename"}
         THEN [acc EXCEPT !.raised = TRUE]
         ELSE IF image_path(image) \in files
         THEN ResolveImages(Tail(refs), files,
                 [acc EXCEPT
                    !.output_images = DictSet(@, image.filename,
                        [filename |-> image.filename, kind |-> "image",
                         data |-> base64_encode(image_path(image))]),
                    !.read = @ \cup {image_path(image)}])
         ELSE ResolveImages(Tail(refs), files,
                 [acc EXCEPT
                    !.output_images = DictSet(@, image.filename,
                        [filename |-> image.filename, kind |-> "error",
                         data |-> <<>>])])

(***************************************************************************)
(* Results of handler.  keys is the set of keys of the returned dict; a   *)
(* field that is not in keys carries a default value.                      *)
(***************************************************************************)
NoResult == [keys |-> {}, error |-> "", details |-> <<>>, status |-> "",
             message |-> "", output_images |-> <<>>,
             refresh_worker |-> FALSE]

ErrNotReady    == "ComfyUI API did not become ready within the timeout period."
ErrUpload      == "Some images failed to upload"
ErrQueue       == "Failed to queue workflow"
ErrPolling     == "An error occurred during polling or processing"
ErrPollTimeout == "Polling timeout: Workflow execution did not complete within the expected time."
MsgSuccess     == "Workflow executed successfully."

ErrorResult(e) == [NoResult EXCEPT !.keys = {"error"}, !.error = e]
ErrorDetailsResult(e, d) ==
    [NoResult EXCEPT !.keys = {"error", "details"}, !.error = e, !.details = d]
SuccessResult(imgs, refresh) ==
    [NoResult EXCEPT
       !.keys = {"status", "message", "output_images", "refresh_worker"},
       !.status = "success", !.message = MsgSuccess,
       !.output_images = imgs, !.refresh_worker = refresh]

(***************************************************************************)
(* State.                                                                  *)
(***************************************************************************)
VARIABLES
    job_input,            \* job['input']
    REFRESH_WORKER,       \* the REFRESH_WORKER configuration
    BUCKET_ENDPOINT_URL,  \* TRUE iff the BUCKET_ENDPOINT_URL variable is set
    pc,                   \* position of handler
    outcome,              \* "running", "returned" or "raised"
    result,               \* the dict handler returned
    elapsed,              \* time.time() - start_time of the readiness probe
    workflow, images,     \* the validated input
    idx,                  \* position of upload_images' loop
    upload_errors, responses,
    retries,              \* the polling loop's counter
    outputFiles,          \* files existing under /comfyui/output
    nObjectInfo, nUpload, nPrompt, nHistory,  \* requests sent, per endpoint
    lastProbe,            \* the service's answer to the last GET /object_info
    lastHist,             \* the service's answer to the last history fetch
    readFiles,            \* output files the handler encoded
    submitted,            \* the workflow sent in the body of POST /prompt
    lastQueue,            \* the service's answer to POST /prompt
    lastOutputs,          \* the outputs mapping the history carried
    nPollSleep,           \* sleeps of the polling loop
    inputFiles,           \* files written under /comfyui/input
    save_errors, saved_files,  \* the lists of save_input_images
    save_result           \* the dict save_input_images returned

vars == << job_input, REFRESH_WORKER, BUCKET_ENDPOINT_URL, pc, outcome,
           result, elapsed, workflow, images, idx, upload_errors, responses,
           retries, outputFiles, nObjectInfo, nUpload,
           nPrompt, nHistory, lastProbe, lastHist, readFiles, submitted,
           lastQueue, lastOutputs, nPollSleep, inputFiles, save_errors,
           saved_files, save_result >>

\* the state of save_input_images, which handler never calls
saveVars == << inputFiles, save_errors, saved_files, save_result >>

\* the result of save_input_images before it returned
NoSaveResult == [keys |-> {}, status |-> "", message |-> "", details |-> <<>>,
                 saved_files |-> <<>>]

Init ==
    /\ job_input \in JobInputs
    /\ REFRESH_WORKER \in BOOLEAN
    /\ BUCKET_ENDPOINT_URL \in BOOLEAN
    /\ pc = "probe"
    /\ outcome = "running"
    /\ result = NoResult
    /\ elapsed = 0
    /\ workflow = None
    /\ images = ImagesNull
    /\ idx = 1
    /\ upload_errors = <<>>
    /\ responses = <<>>
    /\ retries = 0
    /\ outputFiles = {}
    /\ nObjectInfo = 0 /\ nUpload = 0 /\ nPrompt = 0 /\ nHistory = 0
    /\ lastProbe = "none"
    /\ lastHist = "none"
    /\ readFiles = {}
    /\ submitted = <<>>
    /\ lastQueue = "none"
    /\ lastOutputs = <<>>
    /\ nPollSleep = 0
    /\ inputFiles = {}
    /\ save_errors = <<>>
    /\ saved_files = <<>>
    /\ save_result = NoSaveResult

\* handler returns r
Return(r) == /\ pc' = "done"
             /\ outcome' = "returned"
             /\ result' = r

\* an exception leaves handler
Raise == /\ pc' = "done"
         /\ outcome' = "raised"
         /\ result' = NoResult

Continue(next) == /\ pc' = next
                  /\ UNCHANGED << outcome, result >>

(***************************************************************************)
(* wait_for_comfy_api_ready, called at the top of handler.                 *)
(***************************************************************************)
ProbeResponses == {"connfail", "non200", "badjson", "notmapping", "nomarker",
                   "ready"}

\* the timeout test at the top of the loop
ProbeExpired == elapsed > COMFY_API_READY_TIMEOUT

\* what the loop body makes of the answer: the marker capability ends the
\* probe, everything else is logged or ignored and retried.  requests
\* raises RequestException subclasses for transport failures and for a body
\* that is not JSON, and both handlers of the loop catch them.
ProbeBodyRaisesOnBadJson(resp) ==
    CASE resp = "ready"   -> "return_true"
      [] resp = "badjson" -> "raise"
      [] OTHER            -> "retry"

ProbeBody(resp) ==
    CASE resp = "ready" -> "return_true"
      [] OTHER          -> "retry"

\* the probe returns False and handler goes on to validation all the same
ProbeTimeoutIgnored ==
    /\ pc = "probe"
    /\ ProbeExpired
    /\ Continue("validate")
    /\ elapsed' = 0
    /\ UNCHANGED << submitted, lastQueue, lastOutputs, nPollSleep >>
    /\ UNCHANGED saveVars
    /\ UNCHANGED << job_input, REFRESH_WORKER, BUCKET_ENDPOINT_URL,
                    workflow, images, idx, upload_errors, responses, retries,
                    outputFiles, nObjectInfo, nUpload, nPrompt, nHistory,
                    lastHist, lastProbe, readFiles >>

\* the loop's timeout test fires: the probe returns False and handler
\* returns its error
ProbeTimeout ==
    /\ pc = "probe"
    /\ ProbeExpired
    /\ Return(ErrorResult(ErrNotReady))
    /\ UNCHANGED << submitted, lastQueue, lastOutputs, nPollSleep >>
    /\ UNCHANGED saveVars
    /\ UNCHANGED << job_input, REFRESH_WORKER, BUCKET_ENDPOINT_URL, elapsed,
                    workflow, images, idx, upload_errors, responses, retries,
                    outputFiles, nObjectInfo, nUpload, nPrompt, nHistory,
                    lastHist, lastProbe, readFiles >>

\* one iteration: GET /object_info answers resp; unless the marker is
\* there the loop sleeps, and d is the time the iteration took
ProbeRequest(resp, d) ==
    /\ pc = "probe"
    /\ ~ProbeExpired
    /\ nObjectInfo' = nObjectInfo + 1
    /\ lastProbe' = resp
    /\ CASE ProbeBody(resp) = "return_true" ->
              /\ Continue("validate")
              /\ elapsed' = 0      \* the probe's locals are gone
         [] ProbeBody(resp) = "retry" ->
              /\ Continue("probe")
              /\ elapsed' = elapsed + d
         [] OTHER ->
              /\ Raise
              /\ UNCHANGED elapsed
    /\ UNCHANGED << submitted, lastQueue, lastOutputs, nPollSleep >>
    /\ UNCHANGED saveVars
    /\ UNCHANGED << job_input, REFRESH_WORKER, BUCKET_ENDPOINT_URL,
                    workflow, images, idx, upload_errors, responses, retries,
                    outputFiles, nUpload, nPrompt, nHistory, lastHist,
                    readFiles >>

(***************************************************************************)
(* handler lines 391-403: validation.                                      *)
(***************************************************************************)
Validate ==
    /\ pc = "validate"
    /\ LET v == validate_input(job_input) IN
         IF v.err = "raise"
         THEN Raise /\ UNCHANGED << workflow, images >>
         ELSE IF v.err # ""
         THEN Return(ErrorResult(v.err)) /\ UNCHANGED << workflow, images >>
         ELSE /\ workflow' = v.workflow
              /\ images' = v.images
              /\ Continue(IF Len(v.images.items) > 0 THEN "upload" ELSE "queue")
    /\ UNCHANGED << submitted, lastQueue, lastOutputs, nPollSleep >>
    /\ UNCHANGED saveVars
    /\ UNCHANGED << job_input, REFRESH_WORKER, BUCKET_ENDPOINT_URL, elapsed,
                    idx, upload_errors, responses, retries, outputFiles,
                    nObjectInfo, nUpload, nPrompt, nHistory, lastHist,
                    lastProbe, readFiles >>

(***************************************************************************)
(* upload_images, called when the images list is not empty.                *)
(***************************************************************************)
UploadResponses == {"200", "non200", "connfail"}

\* one iteration of the loop: decode, then POST /upload/image
UploadImage(resp) ==
    /\ pc = "upload"
    /\ idx <= Len(images.items)
    /\ LET image == images.items[idx]
           blob  == b64decode(image.image)
       IN  IF ~blob.ok
           THEN /\ Raise          \* binascii.Error, caught nowhere
                /\ UNCHANGED << idx, upload_errors, responses, nUpload >>
           ELSE /\ nUpload' = nUpload + 1
                /\ IF resp = "connfail"
                   THEN /\ Raise  \* requests.ConnectionError, caught nowhere
                        /\ UNCHANGED << idx, upload_errors, responses >>
                   ELSE /\ Continue("upload")
                        /\ idx' = idx + 1
                        /\ IF resp = "200"
                           THEN /\ responses' = Append(responses, image.name)
                                /\ UNCHANGED upload_errors
                           ELSE /\ upload_errors' =
                                       Append(upload_errors, image.name)
                                /\ UNCHANGED responses
    /\ UNCHANGED << submitted, lastQueue, lastOutputs, nPollSleep >>
    /\ UNCHANGED saveVars
    /\ UNCHANGED << job_input, REFRESH_WORKER, BUCKET_ENDPOINT_URL, elapsed,
                    workflow, images, retries, outputFiles, nObjectInfo,
                    nPrompt, nHistory, lastHist, lastProbe, readFiles >>

\* the loop is over: upload_images returns and handler tests its status
UploadReturn ==
    /\ pc = "upload"
    /\ idx > Len(images.items)
    /\ IF Len(upload_errors) > 0
       THEN Return(ErrorDetailsResult(ErrUpload, upload_errors))
       ELSE Continue("queue")
    \* the locals of upload_images are gone
    /\ idx' = 1 /\ upload_errors' = <<>> /\ responses' = <<>>
    /\ UNCHANGED << submitted, lastQueue, lastOutputs, nPollSleep >>
    /\ UNCHANGED saveVars
    /\ UNCHANGED << job_input, REFRESH_WORKER, BUCKET_ENDPOINT_URL, elapsed,
                    workflow, images, retries,
                    outputFiles, nObjectInfo, nUpload, nPrompt, nHistory,
                    lastHist, lastProbe, readFiles >>

(***************************************************************************)
(* handler lines 408-420: queue_workflow.                                  *)
(***************************************************************************)
QueueResponses == {"ok", "transport", "httperror", "badjson", "noid"}

\* a submitter that tries a failed POST /prompt a second time
QueueWorkflowRetriesOnce(resp) ==
    /\ pc = "queue"
    /\ nPrompt' = nPrompt + 1
    /\ submitted' = WorkflowTable[workflow.n]   \* {"prompt": workflow}
    /\ lastQueue' = resp
    /\ IF resp = "ok"
       THEN Continue("poll") /\ retries' = 0
       ELSE IF nPrompt = 0
       THEN Continue("queue") /\ UNCHANGED retries
       ELSE Return(ErrorResult(ErrQueue)) /\ UNCHANGED retries
    /\ UNCHANGED << lastOutputs, nPollSleep >>
    /\ UNCHANGED saveVars
    /\ UNCHANGED << job_input, REFRESH_WORKER, BUCKET_ENDPOINT_URL, elapsed,
                    workflow, images, idx, upload_errors, responses,
                    outputFiles, nObjectInfo, nUpload, nHistory, lastHist,
                    lastProbe, readFiles >>

\* queue_workflow and the try/except around it
QueueWorkflow(resp) ==
    /\ pc = "queue"
    /\ nPrompt' = nPrompt + 1
    /\ submitted' = WorkflowTable[workflow.n]   \* {"prompt": workflow}
    /\ lastQueue' = resp
    /\ IF resp = "ok"
       THEN Continue("poll") /\ retries' = 0
       ELSE Return(ErrorResult(ErrQueue)) /\ UNCHANGED retries
    /\ UNCHANGED << lastOutputs, nPollSleep >>
    /\ UNCHANGED saveVars
    /\ UNCHANGED << job_input, REFRESH_WORKER, BUCKET_ENDPOINT_URL, elapsed,
                    workflow, images, idx, upload_errors, responses,
                    outputFiles, nObjectInfo, nUpload, nHistory, lastHist,
                    lastProbe, readFiles >>

(***************************************************************************)
(* handler lines 423-487: the polling loop and the resolution of outputs.  *)
(***************************************************************************)
HistoryResponses == {"raise", "absent", "nooutputs", "outputs"}

\* a loop that runs one tick too many
PollLoopConditionOffByOne == retries <= COMFY_POLLING_MAX_RETRIES

\* while retries < COMFY_POLLING_MAX_RETRIES
PollLoopCondition == retries < COMFY_POLLING_MAX_RETRIES

\* the while condition fails
PollTimeout ==
    /\ pc = "poll"
    /\ ~PollLoopCondition
    /\ Return(ErrorResult(ErrPollTimeout))
    /\ UNCHANGED << submitted, lastQueue, lastOutputs, nPollSleep >>
    /\ UNCHANGED saveVars
    /\ UNCHANGED << job_input, REFRESH_WORKER, BUCKET_ENDPOINT_URL, elapsed,
                    workflow, images, idx, upload_errors, responses, retries,
                    outputFiles, nObjectInfo, nUpload, nPrompt, nHistory,
                    lastHist, lastProbe, readFiles >>

\* a poller that treats a failed history fetch as a pending tick
PollTickSwallowsException(resp, outputs, files) ==
    /\ pc = "poll"
    /\ PollLoopCondition
    /\ nHistory' = nHistory + 1
    /\ lastHist' = resp
    /\ CASE resp \in {"raise", "absent", "nooutputs"} ->
              /\ retries' = retries + 1
              /\ nPollSleep' = nPollSleep + 1
              /\ Continue("poll")
              /\ UNCHANGED << outputFiles, readFiles, lastOutputs >>
         [] OTHER ->
              LET r == ResolveImages(FlattenOutputs(outputs), files,
                         [raised |-> FALSE, output_images |-> <<>>,
                          read |-> {}])
              IN  /\ outputFiles' = files
                  /\ lastOutputs' = outputs
                  /\ readFiles' = r.read
                  /\ UNCHANGED << retries, nPollSleep >>
                  /\ IF r.raised
                     THEN Return(ErrorResult(ErrPolling))
                     ELSE Return(SuccessResult(r.output_images,
                                               REFRESH_WORKER))
    /\ UNCHANGED << submitted, lastQueue >>
    /\ UNCHANGED saveVars
    /\ UNCHANGED << job_input, REFRESH_WORKER, BUCKET_ENDPOINT_URL, elapsed,
                    workflow, images, idx, upload_errors, responses,
                    nObjectInfo, nUpload, nPrompt, lastProbe >>

\* a poller that takes any history entry of the prompt id for completion
PollTickDoneWithoutOutputs(resp, outputs, files) ==
    /\ pc = "poll"
    /\ PollLoopCondition
    /\ nHistory' = nHistory + 1
    /\ lastHist' = resp
    /\ CASE resp = "raise" ->
              /\ Return(ErrorResult(ErrPolling))
              /\ UNCHANGED << retries, outputFiles, readFiles, lastOutputs,
                              nPollSleep >>
         [] resp = "absent" ->
              /\ retries' = retries + 1
              /\ nPollSleep' = nPollSleep + 1
              /\ Continue("poll")
              /\ UNCHANGED << outputFiles, readFiles, lastOutputs >>
         [] OTHER ->
              LET r == ResolveImages(FlattenOutputs(outputs), files,
                         [raised |-> FALSE, output_images |-> <<>>,
                          read |-> {}])
              IN  /\ outputFiles' = files
                  /\ lastOutputs' = outputs
                  /\ readFiles' = r.read
                  /\ UNCHANGED << retries, nPollSleep >>
                  /\ IF r.raised
                     THEN Return(ErrorResult(ErrPolling))
                     ELSE Return(SuccessResult(r.output_images,
                                               REFRESH_WORKER))
    /\ UNCHANGED << submitted, lastQueue >>
    /\ UNCHANGED saveVars
    /\ UNCHANGED << job_input, REFRESH_WORKER, BUCKET_ENDPOINT_URL, elapsed,
                    workflow, images, idx, upload_errors, responses,
                    nObjectInfo, nUpload, nPrompt, lastProbe >>

\* one tick: GET /history/{prompt_id} answers resp; when it carries
\* outputs, they are `outputs` and ComfyUI has written `files`
PollTick(resp, outputs, files) ==
    /\ pc = "poll"
    /\ PollLoopCondition
    /\ nHistory' = nHistory + 1
    /\ lastHist' = resp
    /\ CASE resp = "raise" ->
              /\ Return(ErrorResult(ErrPolling))
              /\ UNCHANGED << retries, outputFiles, readFiles, lastOutputs,
                              nPollSleep >>
         [] resp \in {"absent", "nooutputs"} ->
              /\ retries' = retries + 1
              /\ nPollSleep' = nPollSleep + 1
              /\ Continue("poll")
              /\ UNCHANGED << outputFiles, readFiles, lastOutputs >>
         [] OTHER ->
              LET r == ResolveImages(FlattenOutputs(outputs), files,
                         [raised |-> FALSE, output_images |-> <<>>,
                          read |-> {}])
              IN  /\ outputFiles' = files
                  /\ lastOutputs' = outputs
                  /\ readFiles' = r.read
                  /\ UNCHANGED << retries, nPollSleep >>
                  /\ IF r.raised
                     THEN Return(ErrorResult(ErrPolling))
                     ELSE Return(SuccessResult(r.output_images,
                                               REFRESH_WORKER))
    /\ UNCHANGED << submitted, lastQueue >>
    /\ UNCHANGED saveVars
    /\ UNCHANGED << job_input, REFRESH_WORKER, BUCKET_ENDPOINT_URL, elapsed,
                    workflow, images, idx, upload_errors, responses,
                    nObjectInfo, nUpload, nPrompt, lastProbe >>

Next ==
    \/ ProbeTimeout
    \/ \E resp \in ProbeResponses, d \in 1..MaxTickDelay : ProbeRequest(resp, d)
    \/ Validate
    \/ \E resp \in UploadResponses : UploadImage(resp)
    \/ UploadReturn
    \/ \E resp \in QueueResponses : QueueWorkflow(resp)
    \/ PollTimeout
    \/ \E resp \in HistoryResponses, outputs \in OutputsChoices,
          files \in SUBSET OutputPaths : PollTick(resp, outputs, files)

Spec == Init /\ [][Next]_vars

\* handler is sequential code: it keeps running until it returns or raises
FairSpec == Spec /\ WF_vars(Next)

TypeOK ==
    /\ pc \in {"probe", "validate", "upload", "queue", "poll", "done"}
    /\ outcome \in {"running", "returned", "raised"}
    /\ (pc = "done") <=> (outcome # "running")
    /\ retries \in 0..COMFY_POLLING_MAX_RETRIES
    /\ elapsed \in 0..(COMFY_API_READY_TIMEOUT + MaxTickDelay)

(***************************************************************************)
(* The materializers called on their own: save_input_images(images), which *)
(* handler never calls, and upload_images(images).                         *)
(***************************************************************************)
ImageNames == {"a.png", "b.png"}

MaterializerItems ==
    { Img(nm, p) : nm \in ImageNames, p \in Payloads }
    \cup { ImgNoName, ImgNoImage }

\* the lists of at most MaxImages items
MaterializerLists ==
    UNION { [1..n -> MaterializerItems] : n \in 0..MaxImages }

\* len(image_base64) < 10 is rejected as "Invalid image data format."
MinBase64Len == 10

MsgNoImages   == "No images provided in input list."
MsgSaveErrors == "Errors occurred while saving input images."
MsgSaved      == "Input images saved successfully."

\* open(filepath, 'wb').write(image_bytes): creates or overwrites the file
WriteFile(files, nm, bytes) ==
    { f \in files : f.name # nm } \cup { [name |-> nm, bytes |-> bytes] }

\* one iteration of the loop of save_input_images
SaveImage ==
    /\ pc = "save"
    /\ idx <= Len(images.items)
    /\ LET image_item == images.items[idx] IN
         IF {"name", "image"} \ image_item.keys # {}
         THEN \* KeyError
              /\ save_errors' = Append(save_errors,
                    [name |-> IF "name" \in image_item.keys
                              THEN image_item.name ELSE "UNKNOWN",
                     kind |-> "missing_key"])
              /\ UNCHANGED << saved_files, inputFiles >>
         ELSE IF \/ Len(image_item.image) < MinBase64Len
                 \/ ~b64decode(image_item.image).ok
         THEN \* ValueError or binascii.Error
              /\ save_errors' = Append(save_errors,
                    [name |-> image_item.name, kind |-> "decode"])
              /\ UNCHANGED << saved_files, inputFiles >>
         ELSE /\ inputFiles' = WriteFile(inputFiles, image_item.name,
                                         b64decode(image_item.image).bytes)
              /\ saved_files' = Append(saved_files, image_item.name)
              /\ UNCHANGED save_errors
    /\ idx' = idx + 1
    /\ UNCHANGED << job_input, REFRESH_WORKER, BUCKET_ENDPOINT_URL, pc,
                    outcome, result, elapsed, workflow, images,
                    upload_errors, responses, retries, outputFiles,
                    nObjectInfo, nUpload, nPrompt, nHistory, lastProbe,
                    lastHist, readFiles, submitted, lastQueue, lastOutputs,
                    nPollSleep, save_result >>

\* save_input_images returns: at once for an empty or absent list, else
\* after the loop
SaveReturn ==
    /\ pc = "save"
    /\ idx > Len(images.items)
    /\ pc' = "save_done"
    /\ save_result' =
         IF Len(images.items) = 0
         THEN [NoSaveResult EXCEPT !.keys = {"status", "message"},
                 !.status = "success", !.message = MsgNoImages]
         ELSE IF Len(save_errors) > 0
         THEN [keys |-> {"status", "message", "details", "saved_files"},
               status |-> "error", message |-> MsgSaveErrors,
               details |-> save_errors, saved_files |-> saved_files]
         ELSE [keys |-> {"status", "message", "saved_files"},
               status |-> "success", message |-> MsgSaved,
               details |-> <<>>, saved_files |-> saved_files]
    /\ UNCHANGED << job_input, REFRESH_WORKER, BUCKET_ENDPOINT_URL,
                    outcome, result, elapsed, workflow, images, idx,
                    upload_errors, responses, retries, outputFiles,
                    nObjectInfo, nUpload, nPrompt, nHistory, lastProbe,
                    lastHist, readFiles, submitted, lastQueue, lastOutputs,
                    nPollSleep, inputFiles, save_errors, saved_files >>

\* a call of save_input_images (pc = "save") on any list or on None, or of
\* upload_images (pc = "upload") on a list that passed validation
MaterializerInit ==
    /\ job_input = [raw |-> "none", json |-> "none", d |-> NoFields]
    /\ REFRESH_WORKER = FALSE
    /\ BUCKET_ENDPOINT_URL = FALSE
    /\ pc \in {"save", "upload"}
    /\ images \in {ImagesNull} \cup {ImagesList(l) : l \in MaterializerLists}
    /\ pc = "upload" => ImagesWellFormed(images)
    /\ outcome = "running"
    /\ result = NoResult
    /\ elapsed = 0
    /\ workflow = None
    /\ idx = 1
    /\ upload_errors = <<>>
    /\ responses = <<>>
    /\ retries = 0
    /\ outputFiles = {}
    /\ nObjectInfo = 0 /\ nUpload = 0 /\ nPrompt = 0 /\ nHistory = 0
    /\ lastProbe = "none"
    /\ lastHist = "none"
    /\ readFiles = {}
    /\ submitted = <<>>
    /\ lastQueue = "none"
    /\ lastOutputs = <<>>
    /\ nPollSleep = 0
    /\ inputFiles = {}
    /\ save_errors = <<>>
    /\ saved_files = <<>>
    /\ save_result = NoSaveResult

MaterializerNext ==
    \/ SaveImage
    \/ SaveReturn
    \/ \E resp \in UploadResponses : UploadImage(resp)
    \/ UploadReturn

MaterializerSpec == MaterializerInit /\ [][MaterializerNext]_vars

(***************************************************************************)
(* Properties.                                                             *)
(***************************************************************************)
NoNetworkCall ==
    nObjectInfo = 0 /\ nUpload = 0 /\ nPrompt = 0 /\ nHistory = 0

\* the malformed inputs: absent input, no workflow under either key, images
\* that is not a list, an images entry without 'name' or 'image'
MalformedInput(j) ==
    \/ j.raw = "none"
    \/ /\ j.json = "object"
       /\ \/ ~j.d.workflow.present /\ ~j.d.comfy_workflow.present
          \/ j.d.images.present /\ j.d.images.v.t \notin {"null", "list"}
          \/ /\ j.d.images.present
             /\ \E k \in 1..Len(j.d.images.v.items) :
                   {"name", "image"} \ j.d.images.v.items[k].keys # {}

\* C1: for every malformed job input handler returns the validation error
\* and no request of any kind (GET /object_info, POST /upload/image,
\* POST /prompt, GET /history) is sent during the job.
C1_MalformedInputNoNetworkCall ==
    MalformedInput(job_input) =>
        /\ NoNetworkCall
        /\ outcome # "running" =>
              /\ outcome = "returned"
              /\ result.error \in ValidationErrors

\* C2: whatever the job and the service do, handler ends by returning a
\* result: no exception leaves handler.
C2_NoExceptionEscapes == outcome # "raised"

\* C3: every result handler returns carries refresh_worker, equal to the
\* configured REFRESH_WORKER.
C3_RefreshWorkerInEveryResult ==
    outcome = "returned" =>
        /\ "refresh_worker" \in result.keys
        /\ result.refresh_worker = REFRESH_WORKER

\* C4: every result handler returns has a status that is "success" or
\* "error", and a message.
C4_StatusAndMessageInEveryResult ==
    outcome = "returned" =>
        /\ {"status", "message"} \subseteq result.keys
        /\ result.status \in {"success", "error"}

\* every history answer so far left the job pending
OnlyPendingTicks == lastHist \notin {"raise", "outputs"}

\* C5: when the history never shows outputs the polling loop ends: at most
\* COMFY_POLLING_MAX_RETRIES history fetches are made, every pending tick
\* adds exactly one to retries, and when retries reaches the maximum
\* handler returns the polling-timeout error.
C5_PollingLoopTerminates ==
    /\ [](nHistory <= COMFY_POLLING_MAX_RETRIES)
    /\ [][(nHistory' = nHistory + 1 /\ lastHist' \in {"absent", "nooutputs"})
             => retries' = retries + 1]_vars
    /\ [](pc = "poll" /\ OnlyPendingTicks => retries = nHistory)
    /\ [][(pc = "poll" /\ OnlyPendingTicks
              /\ retries = COMFY_POLLING_MAX_RETRIES)
             => /\ outcome' = "returned"
                /\ result' = ErrorResult(ErrPollTimeout)
                /\ nHistory' = COMFY_POLLING_MAX_RETRIES]_vars
    /\ [](outcome # "running" /\ nPrompt = 1 /\ lastHist \in {"absent", "nooutputs"}
             => /\ outcome = "returned"
                /\ result = ErrorResult(ErrPollTimeout))
    /\ (pc = "poll") ~> (pc = "done")

C5_Witness ==
    /\ outcome = "returned"
    /\ result = ErrorResult(ErrPollTimeout)
    /\ nHistory = COMFY_POLLING_MAX_RETRIES
    /\ retries = COMFY_POLLING_MAX_RETRIES
    /\ lastHist \in {"absent", "nooutputs"}

\* C6: if GET /object_info never answers 200 with a mapping that contains
\* the marker, wait_for_comfy_api_ready returns False: it leaves its loop,
\* after a bounded number of requests, without raising, whatever failures
\* it saw.
C6_ProbeReturnsFalse ==
    /\ (pc = "probe") ~> (pc # "probe")
    /\ [](nObjectInfo <= COMFY_API_READY_TIMEOUT + 1)
    /\ [][(pc = "probe" /\ pc' # "probe" /\ lastProbe' # "ready")
             => /\ outcome' = "returned"
                /\ result' = ErrorResult(ErrNotReady)]_vars
    /\ [](pc = "probe" => outcome = "running")

C6_Witness ==
    /\ outcome = "returned"
    /\ result = ErrorResult(ErrNotReady)
    /\ lastProbe = "badjson"
    /\ nObjectInfo > 1

\* C7: when the readiness probe returns failure handler returns an error
\* result, and the job sends no image upload, no POST /prompt and no
\* history fetch.
C7_ProbeFailureStopsJob ==
    /\ [][(pc = "probe" /\ ProbeExpired)
             => /\ outcome' = "returned"
                /\ "error" \in result'.keys
                /\ nUpload' = 0 /\ nPrompt' = 0 /\ nHistory' = 0]_vars
    /\ [][(outcome = "returned" /\ result = ErrorResult(ErrNotReady))
             => UNCHANGED << nUpload, nPrompt, nHistory >>]_vars

C7_Witness ==
    /\ outcome = "returned"
    /\ result.error = ErrNotReady
    /\ nObjectInfo > 0
    /\ nUpload = 0 /\ nPrompt = 0 /\ nHistory = 0

\* C8: every output file that exists and was resolved during the job is
\* gone from the output directory when handler returns its result.
C8_ResolvedFilesDeleted ==
    outcome = "returned" => readFiles \cap outputFiles = {}

\* C9: in a success result each existing output file is represented by the
\* reference returned by the upload when BUCKET_ENDPOINT_URL is set, and by
\* the base64 encoding of the file's bytes otherwise.
C9_BranchByBucketEndpoint ==
    (outcome = "returned" /\ result.status = "success") =>
        \A k \in 1..Len(result.output_images) :
            LET e == result.output_images[k] IN
            e.kind # "error" =>
                IF BUCKET_ENDPOINT_URL
                THEN e.kind = "url"
                ELSE /\ e.kind = "image"
                     /\ \E path \in readFiles :
                           /\ path[4] = e.filename
                           /\ e.data = b64encode(FileBytes(path))

\* the validated images list holds an entry whose payload does not decode
HasUndecodableImage ==
    /\ images.t = "list"
    /\ \E k \in 1..Len(images.items) : ~b64decode(images.items[k].image).ok

\* C10: a job whose images list holds an undecodable payload ends with an
\* error result whose details report the decode failure, and its workflow
\* is never sent to POST /prompt.
C10_UndecodableImageIsErrorResult ==
    HasUndecodableImage =>
        /\ nPrompt = 0
        /\ outcome # "running" =>
              /\ outcome = "returned"
              /\ "error" \in result.keys \/ result.status = "error"
              /\ Len(result.details) > 0

\* C11: when the submission fails (transport failure, non-success answer,
\* answer without prompt_id) handler returns that failure as the job's
\* error, POST /prompt was sent exactly once and no history fetch follows.
C11_SubmissionFailureNotRetried ==
    /\ [](nPrompt <= 1)
    /\ [][(nPrompt' = nPrompt + 1 /\ lastQueue' # "ok")
             => /\ outcome' = "returned"
                /\ result' = ErrorResult(ErrQueue)]_vars
    /\ [](lastQueue \notin {"none", "ok"}
             => nPrompt = 1 /\ nHistory = 0 /\ pc = "done")

C11_Witness ==
    /\ outcome = "returned"
    /\ result = ErrorResult(ErrQueue)
    /\ lastQueue = "noid"
    /\ nPrompt = 1
    /\ nHistory = 0

\* C12: when a history fetch or its parsing raises during a tick the job
\* ends at once with an error result: no history fetch follows the failing
\* tick, however much of the retry budget is left.
C12_PollingExceptionIsFatal ==
    /\ [][(nHistory' = nHistory + 1 /\ lastHist' = "raise")
             => /\ outcome' = "returned"
                /\ result' = ErrorResult(ErrPolling)]_vars
    /\ [][lastHist = "raise" => nHistory' = nHistory]_vars
    /\ [](lastHist = "raise" => pc = "done")

C12_Witness ==
    /\ outcome = "returned"
    /\ result = ErrorResult(ErrPolling)
    /\ lastHist = "raise"
    /\ nHistory = 2
    /\ retries + 1 < COMFY_POLLING_MAX_RETRIES

\* validate_input has run on job['input']
Validated == lastProbe = "ready" /\ pc \notin {"probe", "validate"}

\* the key holds a value (JSON null counts as no value)
KeyGiven(field) == field.present /\ field.v.t # "null"

\* the workflow field of the input: the first of the two keys that is given
FirstGivenWorkflow(j) ==
    IF KeyGiven(j.d.workflow) THEN j.d.workflow ELSE j.d.comfy_workflow

\* C13: when a workflow field is given and its value is not a mapping
\* (the falsy values 0, "", false and [] included) validate_input fails
\* with the "must be a JSON object" error, not with the missing-workflow
\* error.
C13_NonMappingWorkflowIsTypeError ==
    (/\ Validated
     /\ job_input.json = "object"
     /\ KeyGiven(FirstGivenWorkflow(job_input))
     /\ ~IsDict(FirstGivenWorkflow(job_input).v))
    => /\ outcome = "returned"
       /\ result.error = ErrWfType

\* C14: when both keys are given validate_input uses the value under
\* 'workflow', whatever it is; 'comfy_workflow' is consulted only when
\* 'workflow' is not given, and the missing-workflow error is returned
\* only when neither key is given.
C14_FirstPresentKeyWins ==
    (Validated /\ job_input.json = "object") =>
       /\ (KeyGiven(job_input.d.workflow) /\ IsDict(workflow))
             => workflow = job_input.d.workflow.v
       /\ (outcome = "returned" /\ result.error = ErrMissingWf)
             => /\ ~KeyGiven(job_input.d.workflow)
                /\ ~KeyGiven(job_input.d.comfy_workflow)

\* the node loads an image given inline as an encoded payload
InlineImageNode(node) ==
    /\ node.class_type = "LoadImage"
    /\ Len(node.image) > 0
    /\ b64decode(node.image).ok

\* C15: in the workflow sent to POST /prompt every image-loading node whose
\* image input decodes as an encoded payload has that input replaced by the
\* name of a newly written input file that holds the decoded bytes; every
\* other node is sent unchanged.
C15_InlineImagesRewritten ==
    nPrompt >= 1 =>
       /\ Len(submitted) = Len(WorkflowTable[workflow.n])
       /\ \A k \in 1..Len(submitted) :
             LET node == WorkflowTable[workflow.n][k] IN
             IF InlineImageNode(node)
             THEN /\ submitted[k].image # node.image
                  /\ \E f \in inputFiles :
                        f.bytes = b64decode(node.image).bytes
             ELSE submitted[k] = node

\* C16: a tick whose history lacks the prompt id, or has it without
\* outputs, leaves the job pending (one retry consumed, one sleep); the job
\* is done, and handler returns a success result, only on a tick whose
\* history entry has outputs, and no tick follows it.
C16_PollerStateMachine ==
    /\ [][(nHistory' = nHistory + 1 /\ lastHist' \in {"absent", "nooutputs"})
             => /\ pc' = "poll"
                /\ outcome' = "running"
                /\ retries' = retries + 1
                /\ nPollSleep' = nPollSleep + 1]_vars
    /\ [][(pc = "poll" /\ result'.status = "success")
             => /\ nHistory' = nHistory + 1
                /\ lastHist' = "outputs"
                /\ pc' = "done"]_vars
    /\ [](result.status = "success" => lastHist = "outputs")
    /\ [](lastHist = "outputs" => pc = "done")
    /\ [][lastHist = "outputs" => nHistory' = nHistory]_vars

C16_Witness ==
    /\ outcome = "returned"
    /\ result.status = "success"
    /\ lastHist = "outputs"
    /\ retries = 2
    /\ nPollSleep = 2
    /\ nHistory = 3

\* position of a step in the order of handler
Rank(p) ==
    CASE p = "probe" -> 0 [] p = "validate" -> 1 [] p = "upload" -> 2
      [] p = "queue" -> 3 [] p = "poll" -> 4 [] OTHER -> 5

\* the ordering of the steps: each runs after the success of the one
\* before, and validation, materialization and submission run once
StepsOrdered ==
    /\ [][Rank(pc') >= Rank(pc)]_vars
    /\ [][pc = "validate" => pc' # "validate"]_vars
    /\ [](nPrompt <= 1)
    /\ [](nUpload <= Len(images.items))
    /\ [][(pc # "queue" /\ pc' = "queue")
             => \/ pc = "validate" /\ Len(images'.items) = 0
                \/ /\ pc = "upload"
                   /\ upload_errors = <<>>
                   /\ Len(responses) = Len(images.items)
                   /\ nUpload = Len(images.items)]_vars
    /\ [][nPrompt' # nPrompt => pc = "queue"]_vars
    /\ [][(pc # "poll" /\ pc' = "poll")
             => pc = "queue" /\ lastQueue' = "ok" /\ nPrompt' = 1]_vars
    /\ [][nHistory' # nHistory => pc = "poll" /\ lastQueue = "ok"]_vars
    /\ [][readFiles' # readFiles
             => pc = "poll" /\ lastHist' = "outputs"]_vars

\* C17: the steps of handler are strictly ordered and the failure of a
\* step ends the job with the error result: submission only after the
\* images were materialized, polling only after the submission returned a
\* prompt id, resolution only after the poller saw outputs; validation,
\* materialization and submission run at most once per job.
C17_StepsOrderedFailureShortCircuits ==
    /\ StepsOrdered
    /\ [][(pc # "done" /\ pc' = "done")
             => /\ outcome' = "returned"
                /\ \/ "error" \in result'.keys
                   \/ result'.status = "success" /\ lastHist' = "outputs"]_vars

\* the images of the outputs mapping the history carried, in loop order
LastRefs == FlattenOutputs(lastOutputs)

WellFormedRefs(refs) ==
    \A k \in 1..Len(refs) : refs[k].keys = {"type", "subfolder", "filename"}

\* the mapping d has an entry of the given kind under the key fn
HasEntry(d, fn, kind) ==
    \E k \in 1..Len(d) : d[k].filename = fn /\ d[k].kind = kind

HasKey(d, fn) == \E k \in 1..Len(d) : d[k].filename = fn

\* output_images as it is once the loops have handled the first k images
OutputImagesAfter(k) ==
    ResolveImages(SubSeq(LastRefs, 1, k), outputFiles,
                  [raised |-> FALSE, output_images |-> <<>>,
                   read |-> {}]).output_images

C19_NoReferenceDropped ==
    (outcome = "returned" /\ result.status = "success"
        /\ lastHist = "outputs") =>
        /\ Len(result.output_images) = Len(LastRefs)
        /\ \A k \in 1..Len(LastRefs) :
              LET path == image_path(LastRefs[k]) IN
              \E n \in 1..Len(result.output_images) :
                 LET e == result.output_images[n] IN
                 /\ e.filename = LastRefs[k].filename
                 /\ IF path \in outputFiles
                    THEN e.kind = "image" /\ e.data = b64encode(FileBytes(path))
                    ELSE e.kind = "error"

\* the item has both keys and a payload that does not decode
Undecodable(item) ==
    /\ {"name", "image"} \subseteq item.keys
    /\ ~b64decode(item.image).ok

\* save_input_images handled every item, reported every undecodable one
\* and aggregated: one error result if an item failed, success otherwise
SaveAggregates ==
    pc = "save_done" =>
        /\ Len(save_errors) + Len(saved_files) = Len(images.items)
        /\ \A k \in 1..Len(images.items) :
              Undecodable(images.items[k]) =>
                 \E n \in 1..Len(save_result.details) :
                    /\ save_result.details[n].name = images.items[k].name
                    /\ save_result.details[n].kind = "decode"
        /\ save_result.status =
              IF Len(save_errors) > 0 THEN "error" ELSE "success"
        /\ save_result.status = "error" => save_result.details = save_errors

\* upload_images is over, and not because a POST /upload/image failed to
\* connect
UploadOver ==
    /\ pc \in {"queue", "done"}
    /\ ~(outcome = "raised" /\ nUpload > Len(responses) + Len(upload_errors))

\* the same of upload_images
UploadAggregates ==
    (UploadOver /\ HasUndecodableImage) =>
        /\ outcome = "returned"
        /\ result.error = ErrUpload
        /\ \A k \in 1..Len(images.items) :
              Undecodable(images.items[k]) =>
                 \E n \in 1..Len(result.details) :
                    result.details[n] = images.items[k].name
        /\ nUpload = Cardinality({k \in 1..Len(images.items) :
                                     ~Undecodable(images.items[k])})

\* C20: when a materializer goes through an explicit image list, a decode
\* failure on an item is recorded as an error of that item and the
\* remaining items are still processed, wherever the failing item stands;
\* the step returns one aggregated error result if an item failed and a
\* success result otherwise.  Stated of both materializers.
C20_DecodeFailureDoesNotAbortBatch ==
    /\ SaveAggregates
    /\ UploadAggregates

\* the payload is the encoding of the bytes it decodes to
ValidEncoding(payload) ==
    /\ b64decode(payload).ok
    /\ payload = b64encode(b64decode(payload).bytes)

\* C21: round trip of save_input_images: for every item whose payload is a
\* valid encoding, of any length, once the list has been processed the
\* input file of that item's name (as written by the last item of that
\* name) holds exactly the bytes the payload decodes to, and the item is
\* not reported as an error.
C21_ValidPayloadRoundTrip ==
    pc = "save_done" =>
        \A k \in 1..Len(images.items) :
            LET item == images.items[k] IN
            (/\ {"name", "image"} \subseteq item.keys
             /\ ValidEncoding(item.image)
             /\ \A j \in (k + 1)..Len(images.items) :
                   images.items[j].name # item.name)
            => /\ [name |-> item.name,
                   bytes |-> b64decode(item.image).bytes] \in inputFiles
               /\ \A n \in 1..Len(save_errors) :
                     save_errors[n].name # item.name
               /\ \E n \in 1..Len(saved_files) : saved_files[n] = item.name

====
